---- MODULE Spec2Model ----
(***************************************************************************)
(* Model of the Solar Productive Use Calculator (app.py).                  *)
(*                                                                         *)
(* The Streamlit script is re-executed from top to bottom on every widget  *)
(* interaction.  The state is the value of every input widget, the cached  *)
(* exchange-rate table and what the last execution rendered.               *)
(*                                                                         *)
(* Python floats are modelled as exact rationals [n, d] in lowest terms.   *)
(***************************************************************************)
EXTENDS Integers, Sequences, FiniteSets, TLC

(***************************************************************************)
(* Rational arithmetic (the float operators + - * / < <= and math.ceil).   *)
(***************************************************************************)
Abs(x) == IF x < 0 THEN -x ELSE x

RECURSIVE GCD(_, _)
GCD(a, b) == IF b = 0 THEN a ELSE GCD(b, a % b)

Norm(n, d) ==
    LET g == GCD(Abs(n), Abs(d))
        s == IF d < 0 THEN -1 ELSE 1
    IN  [n |-> s * (n \div g), d |-> s * (d \div g)]

I(k) == [n |-> k, d |-> 1]
Q(n, d) == Norm(n, d)

RMul(a, b) ==
    LET g1 == GCD(Abs(a.n), b.d)
        g2 == GCD(Abs(b.n), a.d)
    IN  IF a.n = 0 \/ b.n = 0 THEN I(0)
        ELSE [n |-> (a.n \div g1) * (b.n \div g2),
              d |-> (a.d \div g2) * (b.d \div g1)]

RInv(a) == IF a.n < 0 THEN [n |-> -a.d, d |-> -a.n] ELSE [n |-> a.d, d |-> a.n]

\* a / b; the callers test b for zero first (ZeroDivisionError)
RDiv(a, b) == RMul(a, RInv(b))

RAdd(a, b) ==
    LET g == GCD(a.d, b.d)
    IN  Norm(a.n * (b.d \div g) + b.n * (a.d \div g), (a.d \div g) * b.d)

RNeg(a) == [n |-> -a.n, d |-> a.d]
RSub(a, b) == RAdd(a, RNeg(b))

RIsZero(a) == a.n = 0
RPos(a) == a.n > 0
RLt(a, b) ==
    LET g == GCD(a.d, b.d)
    IN  a.n * (b.d \div g) < b.n * (a.d \div g)
RLe(a, b) == ~RLt(b, a)

\* math.ceil: the smallest integer >= a
Ceil(a) == -((-a.n) \div a.d)

\* x ** k for a natural k
RECURSIVE RPowNat(_, _)
RPowNat(x, k) == IF k = 0 THEN I(1) ELSE RMul(x, RPowNat(x, k - 1))

\* round(x, 1): to one decimal, ties to even; the result is in tenths
Round1(x) ==
    LET q  == x.n \div x.d
        r  == x.n % x.d
        t  == (10 * r) \div x.d
        r2 == (10 * r) % x.d
        up == \/ 2 * r2 > x.d
              \/ (2 * r2 = x.d /\ (10 * q + t) % 2 = 1)
    IN  Norm(10 * q + t + (IF up THEN 1 ELSE 0), 10)

(***************************************************************************)
(* Catalog and constants.                                                  *)
(***************************************************************************)
ChooseOne == "Choose one"
appliances == {ChooseOne, "Mill 2kW", "Mill 3kW"}
system_rating == {ChooseOne, "AC", "DC"}

panel_wattage_kw == Q(1, 2)
panel_cost == 50

power_map == [a \in {"Mill 2kW", "Mill 3kW"} |-> IF a = "Mill 2kW" THEN I(2) ELSE I(3)]
price_map_usd == [a \in {"Mill 2kW", "Mill 3kW"} |-> IF a = "Mill 2kW" THEN 600 ELSE 800]
processing_speed_map == [a \in {"Mill 2kW", "Mill 3kW"} |-> IF a = "Mill 2kW" THEN 100 ELSE 150]

InverterRate == 100
ControllerRate == 50
BatteryRate == 300
DaysPerYear == 365

(***************************************************************************)
(* A number typed into a float field, m * 2^(-e); e > 0 only for values    *)
(* of the order of the spacing of doubles around 1.0 or below it.          *)
(***************************************************************************)
Bin(m, e) == [v |-> m, e |-> e]
TinyExp == 54

\* interest_rate = st.number_input(...) / 100 ; monthly_rate = interest_rate / 12
ScaleDiv(x, k) == [v |-> RDiv(x.v, I(k)), e |-> x.e]

\* 2^(-UlpExp) is the spacing of doubles at 1.0
UlpExp == 52

\* nearest integer, ties to even
RoundInt(x) ==
    LET q == x.n \div x.d
        r == x.n % x.d
        up == 2 * r > x.d \/ (2 * r = x.d /\ q % 2 = 1)
    IN  q + (IF up THEN 1 ELSE 0)

\* 1 + x in double arithmetic, as the excess over 1.0: an addend of the order
\* of the spacing is rounded to a whole number of spacings (one below half a
\* spacing is absorbed), the other addends of the model are added exactly
FloatOnePlus(x) ==
    IF x.e >= UlpExp
    THEN Bin(I(RoundInt(RDiv(x.v, RPowNat(I(2), x.e - UlpExp)))), UlpExp)
    ELSE x

\* a / b of two such numbers
BinDiv(a, b) ==
    IF a.e >= b.e
    THEN RDiv(a.v, RMul(b.v, RPowNat(I(2), a.e - b.e)))
    ELSE RDiv(RMul(a.v, RPowNat(I(2), b.e - a.e)), b.v)

(***************************************************************************)
(* The input widgets: what a user may try to enter, and what the widget    *)
(* accepts (min_value / max_value).                                        *)
(***************************************************************************)
RuntimeMin == I(1)
OperatingDaysMin == 1
IncomeMin == I(0)
SunHoursMin == I(1)
EfficiencyMin == 1
EfficiencyMax == 100
BatteryHoursMin == 0
LoanTermMin == 1
InterestMin == 0
DepositMin == I(0)
InstallMin == 0
InstallMax == 100

MaxLoanYears == 2

RuntimeTried == {I(0), I(4)}
OperatingDaysTried == {0, 250}
IncomeTried == {I(-1), I(0), Q(1, 28), Q(1, 4)}
SunHoursTried == {I(0), I(1), I(4)}
EfficiencyTried == {0, 35, 80}
BatteryHoursTried == {-1, 1}
OperatingCostTried == {I(10)}
LoanTermTried == 0 .. MaxLoanYears
InterestTried == {Bin(I(0), 0), Bin(I(1200), 0), Bin(I(1200), TinyExp), Bin(I(900), UlpExp)}
DepositTried == {I(0), I(50000)}
InstallTried == {0, 100}

\* st.number_input: a value outside [min_value, max_value] is not accepted
AcceptsMin(v, lo) == RLe(lo, v)
AcceptsRange(k, lo, hi) == lo <= k /\ k <= hi

\* the power (1 + monthly_rate) ** (-months) is exact in the model's integers
\* only over one year of monthly compounding
Representable(years, pct) == pct.v.n = 0 \/ pct.e >= UlpExp \/ years = 1

(***************************************************************************)
(* External collaborators.                                                 *)
(***************************************************************************)
\* resp.json()["rates"] of a 200 response
RatesTable == [c \in {"USD", "ZAR"} |-> IF c = "USD" THEN I(1) ELSE I(18)]
NoRates == [c \in {} |-> I(1)]
\* requests.get: a 200 response, another status, or an exception
FetchOutcomes == {"ok", "http_error", "raises"}
\* ip_info.get("currency", "USD")
DetectedCurrencies == {"USD", "ZAR", "XOF"}

VARIABLES selected_appliance, selected_system, runtime_per_day, operating_days,
          income_per_kg, sun_hours, system_efficiency, battery_hours,
          daily_operating_cost, loan_term_years, interest_pct, deposit,
          install_increase, use_location, currency_choice,
          rates_cache, page, out

inputs == <<selected_appliance, selected_system, runtime_per_day, operating_days,
            income_per_kg, sun_hours, system_efficiency, battery_hours,
            daily_operating_cost, loan_term_years, interest_pct, deposit,
            install_increase, use_location, currency_choice>>
vars == <<inputs, rates_cache, page, out>>

(***************************************************************************)
(* The script body under "if calculate_btn:" with both selections made.    *)
(* i is the record of widget values, rate the exchange rate looked up.     *)
(* Division sites are collected in execution order; Python raises          *)
(* ZeroDivisionError at the first zero divisor.                            *)
(***************************************************************************)
SafeDiv(a, b) == IF RIsZero(b) THEN I(0) ELSE RDiv(a, b)

\* rates.get(selected_currency, 0)
RateOfDefaultZero(rates, currency) == IF currency \in DOMAIN rates THEN rates[currency] ELSE I(0)

\* rate = rates.get(selected_currency, 1)
RateOf(rates, currency) == IF currency \in DOMAIN rates THEN rates[currency] ELSE I(1)

InverterCost(system, size) == IF system = "AC" THEN RMul(size, I(InverterRate)) ELSE I(0)
\* the controller is charged whatever the system type
ControllerCostAlways(system, size) == RMul(size, I(ControllerRate))

ControllerCost(system, size) ==
    IF system = "AC" THEN I(0)
    ELSE IF system = "DC" THEN RMul(size, I(ControllerRate)) ELSE I(0)

LoanPrincipal(total, dep) == RSub(total, dep)

\* the repayment is not tested for being positive
ViabilityNetOnly(net, daily) ==
    IF RPos(net)
    THEN [viable_business |-> RLe(daily, net),
          viability_text  |-> IF RLe(daily, net) THEN "Yes" ELSE "No"]
    ELSE [viable_business |-> FALSE, viability_text |-> "N/A"]

\* the comparison of income and repayment is the wrong way round
ViabilityReversed(net, daily) ==
    IF RPos(net) /\ RPos(daily)
    THEN [viable_business |-> RLe(net, daily),
          viability_text  |-> IF RLe(net, daily) THEN "Yes" ELSE "No"]
    ELSE [viable_business |-> FALSE, viability_text |-> "N/A"]

Viability(net, daily) ==
    IF RPos(net) /\ RPos(daily)
    THEN [viable_business |-> RLe(daily, net),
          viability_text  |-> IF RLe(daily, net) THEN "Yes" ELSE "No"]
    ELSE [viable_business |-> FALSE, viability_text |-> "N/A"]

\* int() in place of math.ceil
PanelsRequiredTruncated(energy_production, panel_energy) ==
    SafeDiv(energy_production, panel_energy).n \div SafeDiv(energy_production, panel_energy).d

PanelsRequired(energy_production, panel_energy) == Ceil(SafeDiv(energy_production, panel_energy))

\* rounds up to whole kWp
RecommendedSolarSizeWhole(energy_production, sun) ==
    I(Ceil(SafeDiv(energy_production, sun)))

RecommendedSolarSize(energy_production, sun) ==
    RDiv(I(Ceil(RMul(SafeDiv(energy_production, sun), I(2)))), I(2))

\* the value of an expression, bound once
The(S) == CHOOSE x \in S : TRUE

\* a + b + ... over a sequence of amounts
RECURSIVE RSum(_)
RSum(seq) == IF seq = << >> THEN I(0) ELSE RAdd(seq[1], RSum(Tail(seq)))

\* lines 357-364, 369: catalog lookup and the values read off the widgets
Lookup(i, rate) ==
    [ power |-> power_map[i.selected_appliance],
      price_usd |-> I(price_map_usd[i.selected_appliance]),
      processing_speed |-> I(processing_speed_map[i.selected_appliance]),
      rate |-> rate,
      energy_required_per_day |-> RMul(i.runtime_per_day, power_map[i.selected_appliance]),
      eff_fraction |-> Q(i.system_efficiency, 100),
      panel_energy_per_day |-> RMul(panel_wattage_kw, i.sun_hours) ]

\* lines 363-366: efficiency, energy to produce, daily production
Energy(i, r) ==
    r @@ [ specific_efficiency |-> SafeDiv(r.processing_speed, r.power),
           energy_production |-> SafeDiv(r.energy_required_per_day, r.eff_fraction),
           income_per_hour |-> RMul(i.income_per_kg, r.processing_speed) ]

Production(i, r) ==
    r @@ [ production_per_day |-> RMul(r.specific_efficiency, r.energy_required_per_day) ]

\* lines 366-368: income
Income(i, r) ==
    r @@ [ income_per_day |-> RMul(i.income_per_kg, r.production_per_day) ]

NetIncome(i, r) ==
    r @@ [ gross_income_per_year |-> RMul(r.income_per_day, I(i.operating_days)),
           net_income_per_day |-> RSub(r.income_per_day, i.daily_operating_cost) ]

\* lines 370-372: panels and array size
Sizing(i, r) ==
    r @@ [ panels_required |-> PanelsRequired(r.energy_production, r.panel_energy_per_day),
           recommended_solar_size |-> RecommendedSolarSize(r.energy_production, i.sun_hours) ]

\* lines 371, 373: panel cost and battery capacity
Battery(i, r) ==
    r @@ [ solar_panel_cost |-> I(r.panels_required * panel_cost),
           battery_capacity |-> RMul(r.recommended_solar_size, I(i.battery_hours)) ]

\* lines 375-385: component costs
Components(i, r) ==
    r @@ [ inverter_cost |-> InverterCost(i.selected_system, r.recommended_solar_size),
           controller_cost |-> ControllerCost(i.selected_system, r.recommended_solar_size),
           battery_cost |-> RMul(r.battery_capacity, I(BatteryRate)),
           install_multiplier |-> RAdd(I(1), Q(i.install_increase, 100)) ]

\* line 388: the FOB subtotal
Subtotal(i, r) ==
    r @@ [ fob_subtotal_usd |->
             RSum(<<r.price_usd, r.solar_panel_cost, r.inverter_cost,
                    r.controller_cost, r.battery_cost>>) ]

\* line 389: the installed total
Installed(i, r) ==
    r @@ [ total_with_import_usd |-> RMul(r.fob_subtotal_usd, r.install_multiplier) ]

\* lines 390-394: principal, months, monthly rate
LoanTerms(i, r) ==
    r @@ [ loan_principal_usd |-> LoanPrincipal(r.total_with_import_usd, i.deposit),
           months |-> i.loan_term_years * 12,
           monthly_rate |-> ScaleDiv(ScaleDiv(i.interest_pct, 100), 12) ]

\* line 397: (1 + monthly_rate), as its excess over 1.0
Growth(i, r) ==
    r @@ [ rate_positive |-> RPos(r.monthly_rate.v),
           growth |-> FloatOnePlus(r.monthly_rate) ]

\* 1 - (1 + growth) ** (-months) in double arithmetic: the power of
\* 1 + k * 2^(-52) rounds to 1 - months * k * 2^(-52) for the few spacings k
\* of the model, the other powers of the model are exact
AnnuityDivisor(growth, months) ==
    IF growth.e >= UlpExp
    THEN Bin(RMul(I(months), growth.v), growth.e)
    ELSE IF months >= 0
    THEN Bin(RSub(I(1), SafeDiv(I(1),
                 RPowNat(RAdd(I(1), RDiv(growth.v, RPowNat(I(2), growth.e))), months))), 0)
    ELSE Bin(RSub(I(1),
                 RPowNat(RAdd(I(1), RDiv(growth.v, RPowNat(I(2), growth.e))), -months)), 0)

\* the annuity divisor whatever the rate
LoanDivisorAlwaysAnnuity(i, r) ==
    r @@ [ loan_divisor |-> AnnuityDivisor(r.growth, r.months),
           interest_per_month |->
             Bin(RMul(r.loan_principal_usd, r.monthly_rate.v), r.monthly_rate.e) ]

\* lines 396-399: the dividend and the divisor of the branch taken
LoanDivisor(i, r) ==
    r @@ [ loan_divisor |->
             IF r.rate_positive THEN AnnuityDivisor(r.growth, r.months)
             ELSE Bin(I(r.months), 0),
           interest_per_month |->
             Bin(RMul(r.loan_principal_usd, r.monthly_rate.v), r.monthly_rate.e) ]

\* lines 396-399: the monthly repayment
Loan(i, r) ==
    r @@ [ monthly_repayment_usd |->
             IF RIsZero(r.loan_divisor.v) THEN I(0)
             ELSE IF r.rate_positive
             THEN BinDiv(r.interest_per_month, r.loan_divisor)
             ELSE BinDiv(Bin(r.loan_principal_usd, 0), r.loan_divisor) ]

\* lines 401, 403: total and annual repayment
Repayment(i, r) ==
    r @@ [ total_repayment_usd |-> RMul(I(r.months), r.monthly_repayment_usd),
           annual_repayment_usd |-> RMul(r.monthly_repayment_usd, I(12)) ]

\* lines 402, 404: interest paid and daily repayment
Interest(i, r) ==
    r @@ [ total_interest_paid_usd |-> RSub(r.total_repayment_usd, r.loan_principal_usd),
           daily_repayment_usd |-> RDiv(r.annual_repayment_usd, I(DaysPerYear)) ]

\* lines 406-409: the repayment as a fraction of income
RepaymentShare(i, r) ==
    r @@ [ repayment_share |->
             IF RPos(r.income_per_day) THEN RDiv(r.daily_repayment_usd, r.income_per_day)
             ELSE I(0) ]

\* lines 406-419: repayment percentage and the verdict
Verdict(i, r) ==
    r @@ [ repayment_percentage |->
             IF RPos(r.income_per_day) THEN RMul(r.repayment_share, I(100)) ELSE I(0),
           viable_business |-> Viability(r.net_income_per_day, r.daily_repayment_usd).viable_business,
           viability_text |-> Viability(r.net_income_per_day, r.daily_repayment_usd).viability_text,
           divisors |-> <<r.power, r.eff_fraction, r.panel_energy_per_day,
                          i.sun_hours, r.loan_divisor.v>> ]

\* the calculations of lines 356-419, statement after statement
Calc(i, rate) ==
    The({ Verdict(i, r17) : r17 \in
        { RepaymentShare(i, r16) : r16 \in
        { Interest(i, r15) : r15 \in
        { Repayment(i, r14) : r14 \in
        { Loan(i, r13) : r13 \in
        { LoanDivisor(i, r12) : r12 \in
        { Growth(i, r11) : r11 \in
        { LoanTerms(i, r10) : r10 \in
        { Installed(i, r9) : r9 \in
        { Subtotal(i, r8) : r8 \in
        { Components(i, r7) : r7 \in
        { Battery(i, r6) : r6 \in
        { Sizing(i, r5) : r5 \in
        { NetIncome(i, r4) : r4 \in
        { Income(i, r3) : r3 \in
        { Production(i, r2) : r2 \in
        { Energy(i, r1) : r1 \in
        { Lookup(i, rate) }}}}}}}}}}}}}}}}}})

(***************************************************************************)
(* Rendering of the result tabs.  Monetary values are multiplied by the    *)
(* rate and rounded to one decimal where they are displayed.               *)
(***************************************************************************)
Converted(x, rate) == RMul(x, rate)

\* round(value * rate, 1)
Money(x, rate) == The({ Round1(y) : y \in {Converted(x, rate)} })

\* the metric is drawn whatever the verdict
SurplusShownAlways(c) == TRUE

SurplusShown(c) == c.viable_business
PaybackShown(c) == c.viable_business /\ RPos(c.annual_repayment_usd)

\* net_income_per_day * operating_days, the divisor of payback_years
PaybackDivisor(c, i) == RMul(c.net_income_per_day, I(i.operating_days))

\* the metric cards every result page shows
CardsAlways(c, i) ==
    [ DailyNetIncome     |-> Money(c.net_income_per_day, c.rate),
      ApplianceCost      |-> Money(c.price_usd, c.rate),
      SolarPanelCost     |-> Money(c.solar_panel_cost, c.rate),
      BatteryCost        |-> Money(c.battery_cost, c.rate),
      FOBSubtotal        |-> Money(c.fob_subtotal_usd, c.rate),
      InstalledCost      |-> Money(c.total_with_import_usd, c.rate),
      LoanPrincipal      |-> Money(c.loan_principal_usd, c.rate),
      MonthlyPayment     |-> Money(c.monthly_repayment_usd, c.rate),
      TotalInterest      |-> Money(c.total_interest_paid_usd, c.rate),
      DailyGrossIncome   |-> Money(c.income_per_day, c.rate),
      DailyLoanRepayment |-> Money(c.daily_repayment_usd, c.rate),
      RepaymentPct       |-> Round1(c.repayment_percentage) ]

\* Inverter Cost for an AC system, Controller Cost otherwise
CardSystem(c, i) ==
    IF i.selected_system = "AC"
    THEN [InverterCost |-> Money(c.inverter_cost, c.rate)]
    ELSE [ControllerCost |-> Money(c.controller_cost, c.rate)]

\* surplus = net_income_per_day - daily_repayment_usd, under "if viable_business"
CardSurplus(c, i) ==
    IF SurplusShown(c)
    THEN The({ [DailySurplus |-> Money(surplus, c.rate)] :
               surplus \in {RSub(c.net_income_per_day, c.daily_repayment_usd)} })
    ELSE << >>

\* the payback card
CardPayback(c, i) ==
    IF PaybackShown(c)
    THEN The({ [TotalSystemCost |-> Money(c.total_with_import_usd, c.rate),
                AnnualNetProfit |-> Money(d, c.rate),
                payback_years   |-> SafeDiv(c.total_with_import_usd, d)] :
               d \in {PaybackDivisor(c, i)} })
    ELSE << >>

Render(c, i) ==
    [ shown |-> CardsAlways(c, i) @@ CardSystem(c, i) @@ CardSurplus(c, i)
                  @@ CardPayback(c, i),
      divisors |-> IF PaybackShown(c) THEN <<PaybackDivisor(c, i)>> ELSE << >> ]

NoOut == << >>

(***************************************************************************)
(* One execution of the script.                                            *)
(***************************************************************************)
In == [ selected_appliance |-> selected_appliance, selected_system |-> selected_system,
        runtime_per_day |-> runtime_per_day, operating_days |-> operating_days,
        income_per_kg |-> income_per_kg, sun_hours |-> sun_hours,
        system_efficiency |-> system_efficiency, battery_hours |-> battery_hours,
        daily_operating_cost |-> daily_operating_cost,
        loan_term_years |-> loan_term_years, interest_pct |-> interest_pct,
        deposit |-> deposit, install_increase |-> install_increase,
        use_location |-> use_location, currency_choice |-> currency_choice ]

\* get_exchange_rates(): the cached value while the cache entry lives
GetExchangeRates(cache, fetch) ==
    IF cache.valid THEN cache.rates
    ELSE IF fetch = "ok" THEN RatesTable ELSE NoRates

\* currencies = ["USD"] + sorted(other codes of the table)
Currencies(rates) == {"USD"} \cup DOMAIN rates

\* selected_currency after the "Currency Settings" block
SelectedCurrency(i, currencies, detected) ==
    IF i.use_location
    THEN IF detected \in currencies THEN detected ELSE "USD"
    ELSE IF i.currency_choice \in currencies THEN i.currency_choice ELSE "USD"

\* only the appliance is tested
BothSelectedApplianceOnly(i) == i.selected_appliance # ChooseOne

BothSelected(i) == i.selected_appliance # ChooseOne /\ i.selected_system # ChooseOne

HasZero(seq) == \E k \in DOMAIN seq : RIsZero(seq[k])

\* the result tabs, or the exception of the first division by zero
Tabs(i, c, r, rates, currency) ==
    IF HasZero(c.divisors) \/ HasZero(r.divisors)
    THEN [page |-> "calc_exception", out |-> NoOut]
    ELSE [page |-> "results",
          out |-> [calc |-> c, selected_currency |-> currency,
                   rates |-> rates, shown |-> r.shown]]

\* the appliance price is converted to the display currency when looked up
ResultsPriceConverted(i, rates, currency) ==
    IF ~BothSelected(i) THEN [page |-> "missing_selection", out |-> NoOut]
    ELSE The({ Tabs(i, c, Render(c, i), rates, currency) :
               c \in { [c0 EXCEPT !.price_usd = RMul(@, c0.rate),
                                  !.fob_subtotal_usd =
                                      RAdd(@, RSub(RMul(c0.price_usd, c0.rate), c0.price_usd))] :
                       c0 \in {Calc(i, RateOf(rates, currency))} } })

\* the part of the script from "if calculate_btn:" on
Results(i, rates, currency) ==
    IF ~BothSelected(i) THEN [page |-> "missing_selection", out |-> NoOut]
    ELSE The({ Tabs(i, c, Render(c, i), rates, currency) :
               c \in {Calc(i, RateOf(rates, currency))} })

\* i: the widget values of this execution
Script(i, calculate_btn) ==
    \E fetch \in (IF rates_cache.valid THEN {"cached"} ELSE FetchOutcomes),
       detected \in (IF i.use_location THEN DetectedCurrencies ELSE {"USD"}) :
        IF fetch = "raises"
        THEN /\ page' = "fetch_exception"
             /\ out' = NoOut
             /\ rates_cache' = rates_cache
        ELSE \E rates \in {GetExchangeRates(rates_cache, fetch)} :
             \E currency \in {SelectedCurrency(i, Currencies(rates), detected)} :
             \E res \in {IF calculate_btn THEN Results(i, rates, currency)
                         ELSE [page |-> "form", out |-> NoOut]} :
                 /\ rates_cache' = [valid |-> TRUE, rates |-> rates]
                 /\ page' = res.page
                 /\ out' = res.out

\* the widgets are on the page unless the script stopped before drawing them
WidgetsDrawn == page # "fetch_exception"

(***************************************************************************)
(* The values each widget accepts.                                         *)
(***************************************************************************)
RuntimeInputs == {v \in RuntimeTried : AcceptsMin(v, RuntimeMin)}
OperatingDaysInputs == {k \in OperatingDaysTried : k >= OperatingDaysMin}
IncomeInputs == {v \in IncomeTried : AcceptsMin(v, IncomeMin)}
SunHoursInputs == {v \in SunHoursTried : AcceptsMin(v, SunHoursMin)}
EfficiencyInputs == {k \in EfficiencyTried : AcceptsRange(k, EfficiencyMin, EfficiencyMax)}
BatteryHoursInputs == {k \in BatteryHoursTried : k >= BatteryHoursMin}
LoanTermInputs == {k \in LoanTermTried : k >= LoanTermMin}
InterestInputs == {x \in InterestTried : x.v.n >= InterestMin}
DepositInputs == {v \in DepositTried : AcceptsMin(v, DepositMin)}
InstallInputs == {k \in InstallTried : AcceptsRange(k, InstallMin, InstallMax)}

\* the first execution of the script has run: the form is drawn, or the
\* rate fetch raised before anything was drawn
Init ==
    /\ selected_appliance \in appliances
    /\ selected_system \in system_rating
    /\ runtime_per_day \in RuntimeInputs
    /\ operating_days \in OperatingDaysInputs
    /\ income_per_kg \in IncomeInputs
    /\ sun_hours \in SunHoursInputs
    /\ system_efficiency \in EfficiencyInputs
    /\ battery_hours \in BatteryHoursInputs
    /\ daily_operating_cost \in OperatingCostTried
    /\ loan_term_years \in LoanTermInputs
    /\ interest_pct \in InterestInputs
    /\ Representable(loan_term_years, interest_pct)
    /\ deposit \in DepositInputs
    /\ install_increase \in InstallInputs
    /\ use_location = FALSE
    /\ currency_choice = "USD"
    /\ \/ /\ rates_cache \in {[valid |-> TRUE, rates |-> RatesTable],
                              [valid |-> TRUE, rates |-> NoRates]}
          /\ page = "form"
       \/ /\ rates_cache = [valid |-> FALSE, rates |-> NoRates]
          /\ page = "fetch_exception"
    /\ out = NoOut

(***************************************************************************)
(* Widget interactions; each one re-executes the script.                   *)
(***************************************************************************)
\* selected_appliance = st.selectbox(...)
SetAppliance(a) ==
    /\ WidgetsDrawn
    /\ a \in appliances
    /\ selected_appliance' = a
    /\ UNCHANGED <<selected_system, runtime_per_day, operating_days,
                    income_per_kg, sun_hours, system_efficiency,
                    battery_hours, daily_operating_cost, loan_term_years,
                    interest_pct, deposit, install_increase, use_location,
                    currency_choice>>
    /\ Script([In EXCEPT !.selected_appliance = a], FALSE)

\* selected_system = st.selectbox(...)
SetSystem(r) ==
    /\ WidgetsDrawn
    /\ r \in system_rating
    /\ selected_system' = r
    /\ UNCHANGED <<selected_appliance, runtime_per_day, operating_days,
                    income_per_kg, sun_hours, system_efficiency,
                    battery_hours, daily_operating_cost, loan_term_years,
                    interest_pct, deposit, install_increase, use_location,
                    currency_choice>>
    /\ Script([In EXCEPT !.selected_system = r], FALSE)

\* runtime_per_day = st.number_input(min_value=1.0)
SetRuntime(v) ==
    /\ WidgetsDrawn
    /\ v \in RuntimeInputs
    /\ runtime_per_day' = v
    /\ UNCHANGED <<selected_appliance, selected_system, operating_days,
                    income_per_kg, sun_hours, system_efficiency,
                    battery_hours, daily_operating_cost, loan_term_years,
                    interest_pct, deposit, install_increase, use_location,
                    currency_choice>>
    /\ Script([In EXCEPT !.runtime_per_day = v], FALSE)

\* operating_days = st.number_input(min_value=1)
SetOperatingDays(k) ==
    /\ WidgetsDrawn
    /\ k \in OperatingDaysInputs
    /\ operating_days' = k
    /\ UNCHANGED <<selected_appliance, selected_system, runtime_per_day,
                    income_per_kg, sun_hours, system_efficiency,
                    battery_hours, daily_operating_cost, loan_term_years,
                    interest_pct, deposit, install_increase, use_location,
                    currency_choice>>
    /\ Script([In EXCEPT !.operating_days = k], FALSE)

\* income_per_kg = st.number_input(min_value=0.0)
SetIncome(v) ==
    /\ WidgetsDrawn
    /\ v \in IncomeInputs
    /\ income_per_kg' = v
    /\ UNCHANGED <<selected_appliance, selected_system, runtime_per_day,
                    operating_days, sun_hours, system_efficiency,
                    battery_hours, daily_operating_cost, loan_term_years,
                    interest_pct, deposit, install_increase, use_location,
                    currency_choice>>
    /\ Script([In EXCEPT !.income_per_kg = v], FALSE)

\* sun_hours = st.number_input(min_value=1.0)
SetSunHours(v) ==
    /\ WidgetsDrawn
    /\ v \in SunHoursInputs
    /\ sun_hours' = v
    /\ UNCHANGED <<selected_appliance, selected_system, runtime_per_day,
                    operating_days, income_per_kg, system_efficiency,
                    battery_hours, daily_operating_cost, loan_term_years,
                    interest_pct, deposit, install_increase, use_location,
                    currency_choice>>
    /\ Script([In EXCEPT !.sun_hours = v], FALSE)

\* system_efficiency = st.number_input(min_value=1, max_value=100)
SetEfficiency(k) ==
    /\ WidgetsDrawn
    /\ k \in EfficiencyInputs
    /\ system_efficiency' = k
    /\ UNCHANGED <<selected_appliance, selected_system, runtime_per_day,
                    operating_days, income_per_kg, sun_hours,
                    battery_hours, daily_operating_cost, loan_term_years,
                    interest_pct, deposit, install_increase, use_location,
                    currency_choice>>
    /\ Script([In EXCEPT !.system_efficiency = k], FALSE)

\* battery_hours = st.number_input(min_value=0)
SetBatteryHours(k) ==
    /\ WidgetsDrawn
    /\ k \in BatteryHoursInputs
    /\ battery_hours' = k
    /\ UNCHANGED <<selected_appliance, selected_system, runtime_per_day,
                    operating_days, income_per_kg, sun_hours,
                    system_efficiency, daily_operating_cost,
                    loan_term_years, interest_pct, deposit,
                    install_increase, use_location, currency_choice>>
    /\ Script([In EXCEPT !.battery_hours = k], FALSE)

\* daily_operating_cost = st.number_input(...), no bounds
SetOperatingCost(v) ==
    /\ WidgetsDrawn
    /\ v \in OperatingCostTried
    /\ daily_operating_cost' = v
    /\ UNCHANGED <<selected_appliance, selected_system, runtime_per_day,
                    operating_days, income_per_kg, sun_hours,
                    system_efficiency, battery_hours, loan_term_years,
                    interest_pct, deposit, install_increase, use_location,
                    currency_choice>>
    /\ Script([In EXCEPT !.daily_operating_cost = v], FALSE)

\* loan_term_years = st.number_input(min_value=1)
SetLoanTerm(k) ==
    /\ WidgetsDrawn
    /\ k \in LoanTermInputs /\ Representable(k, interest_pct)
    /\ loan_term_years' = k
    /\ UNCHANGED <<selected_appliance, selected_system, runtime_per_day,
                    operating_days, income_per_kg, sun_hours,
                    system_efficiency, battery_hours,
                    daily_operating_cost, interest_pct, deposit,
                    install_increase, use_location, currency_choice>>
    /\ Script([In EXCEPT !.loan_term_years = k], FALSE)

\* interest_rate = st.number_input(min_value=0.0) / 100
SetInterest(x) ==
    /\ WidgetsDrawn
    /\ x \in InterestInputs /\ Representable(loan_term_years, x)
    /\ interest_pct' = x
    /\ UNCHANGED <<selected_appliance, selected_system, runtime_per_day,
                    operating_days, income_per_kg, sun_hours,
                    system_efficiency, battery_hours,
                    daily_operating_cost, loan_term_years, deposit,
                    install_increase, use_location, currency_choice>>
    /\ Script([In EXCEPT !.interest_pct = x], FALSE)

\* deposit = st.number_input(min_value=0.0)
SetDeposit(v) ==
    /\ WidgetsDrawn
    /\ v \in DepositInputs
    /\ deposit' = v
    /\ UNCHANGED <<selected_appliance, selected_system, runtime_per_day,
                    operating_days, income_per_kg, sun_hours,
                    system_efficiency, battery_hours,
                    daily_operating_cost, loan_term_years, interest_pct,
                    install_increase, use_location, currency_choice>>
    /\ Script([In EXCEPT !.deposit = v], FALSE)

\* install_increase = st.number_input(min_value=0, max_value=100)
SetInstallIncrease(k) ==
    /\ WidgetsDrawn
    /\ k \in InstallInputs
    /\ install_increase' = k
    /\ UNCHANGED <<selected_appliance, selected_system, runtime_per_day,
                    operating_days, income_per_kg, sun_hours,
                    system_efficiency, battery_hours,
                    daily_operating_cost, loan_term_years, interest_pct,
                    deposit, use_location, currency_choice>>
    /\ Script([In EXCEPT !.install_increase = k], FALSE)

\* use_location = st.checkbox(...); the currency selectbox is drawn only while
\* the box is unchecked, and starts at its first option when drawn anew
ToggleUseLocation ==
    /\ WidgetsDrawn
    /\ use_location' = ~use_location
    /\ currency_choice' = "USD"
    /\ UNCHANGED <<selected_appliance, selected_system, runtime_per_day,
                    operating_days, income_per_kg, sun_hours, system_efficiency,
                    battery_hours, daily_operating_cost, loan_term_years,
                    interest_pct, deposit, install_increase>>
    /\ Script([In EXCEPT !.use_location = ~use_location, !.currency_choice = "USD"], FALSE)

\* selected_currency = st.selectbox("Select Currency:", currencies)
SetCurrency(c) ==
    /\ WidgetsDrawn
    /\ ~use_location
    /\ c \in Currencies(rates_cache.rates)
    /\ currency_choice' = c
    /\ UNCHANGED <<selected_appliance, selected_system, runtime_per_day,
                    operating_days, income_per_kg, sun_hours,
                    system_efficiency, battery_hours,
                    daily_operating_cost, loan_term_years, interest_pct,
                    deposit, install_increase, use_location>>
    /\ Script([In EXCEPT !.currency_choice = c], FALSE)

\* calculate_btn = st.button(...)
Calculate ==
    /\ WidgetsDrawn
    /\ UNCHANGED inputs
    /\ Script(In, TRUE)

\* @st.cache_data(ttl=3600): the cached table expires
ExpireCache ==
    /\ rates_cache.valid
    /\ rates_cache' = [valid |-> FALSE, rates |-> NoRates]
    /\ UNCHANGED <<inputs, page, out>>

\* the browser reloads a page on which the script had stopped
Reload ==
    /\ ~WidgetsDrawn
    /\ UNCHANGED inputs
    /\ Script(In, FALSE)

Next ==
    \/ \E a \in appliances : SetAppliance(a)
    \/ \E r \in system_rating : SetSystem(r)
    \/ \E v \in RuntimeInputs : SetRuntime(v)
    \/ \E k \in OperatingDaysInputs : SetOperatingDays(k)
    \/ \E v \in IncomeInputs : SetIncome(v)
    \/ \E v \in SunHoursInputs : SetSunHours(v)
    \/ \E k \in EfficiencyInputs : SetEfficiency(k)
    \/ \E k \in BatteryHoursInputs : SetBatteryHours(k)
    \/ \E v \in OperatingCostTried : SetOperatingCost(v)
    \/ \E k \in LoanTermInputs : SetLoanTerm(k)
    \/ \E x \in InterestInputs : SetInterest(x)
    \/ \E v \in DepositInputs : SetDeposit(v)
    \/ \E k \in InstallInputs : SetInstallIncrease(k)
    \/ ToggleUseLocation
    \/ \E c \in {"USD", "ZAR"} : SetCurrency(c)
    \/ Calculate
    \/ ExpireCache
    \/ Reload

Spec == Init /\ [][Next]_vars

(***************************************************************************)
(* Properties of a completed run: the script reached the result tabs.      *)
(***************************************************************************)
Completed == page = "results"

\* C1: no run completes with a negative loan principal or a negative monthly
\* payment; a deposit above the installed total is rejected or clamped.
C1_NoNegativePrincipal ==
    Completed =>
        /\ out.calc.loan_principal_usd.n >= 0
        /\ out.calc.monthly_repayment_usd.n >= 0

\* C2: the verdict is Viable ("Yes") iff net income and daily repayment are
\* both positive and net income covers the repayment, N/A iff one of the two
\* is not positive, and NotViable ("No") in the remaining case.
C2_ThreeStateVerdict ==
    Completed =>
        LET net == out.calc.net_income_per_day
            daily == out.calc.daily_repayment_usd
            text == out.calc.viability_text
        IN  /\ text \in {"Yes", "No", "N/A"}
            /\ (text = "Yes") = (net.n > 0 /\ daily.n > 0 /\ ~RLt(net, daily))
            /\ (text = "N/A") = (net.n <= 0 \/ daily.n <= 0)
            /\ (text = "No") = (net.n > 0 /\ daily.n > 0 /\ RLt(net, daily))
            /\ out.calc.viable_business = (text = "Yes")

C2_Witness ==
    /\ Completed
    /\ out.calc.viability_text = "No"
    /\ out.calc.net_income_per_day.n > 0
    /\ RLt(out.calc.net_income_per_day, out.calc.daily_repayment_usd)

\* C3: the daily surplus and the payback period are in the output iff the
\* verdict is Viable; when they are, they are net income minus repayment and
\* installed total over (net income * operating days), a positive divisor.
C3_SurplusAndPaybackIffViable ==
    Completed =>
        LET c == out.calc
            viable == c.viability_text = "Yes"
            divisor == RMul(c.net_income_per_day, I(operating_days))
        IN  /\ ("DailySurplus" \in DOMAIN out.shown) = viable
            /\ ("payback_years" \in DOMAIN out.shown) = viable
            /\ viable =>
                /\ divisor.n > 0
                /\ out.shown.DailySurplus =
                     Round1(RMul(RSub(c.net_income_per_day, c.daily_repayment_usd), c.rate))
                /\ RMul(out.shown.payback_years, divisor) = c.total_with_import_usd

C3_Witness ==
    /\ Completed
    /\ out.calc.viability_text = "Yes"
    /\ "DailySurplus" \in DOMAIN out.shown
    /\ out.shown.DailySurplus.n > 0

\* C4: the selected currency and the rate table do not interfere with the
\* calculation: the same widget values under any other table and currency
\* give the same technical values, USD amounts, repayment percentage and
\* verdict; the rate enters only the displayed amounts.
C4_RateNoninterference ==
    Completed =>
        /\ \A rates2 \in {RatesTable, NoRates} :
             \A currency2 \in Currencies(rates2) :
                LET other == Results(In, rates2, currency2)
                IN  /\ other.page = "results"
                    /\ \A f \in DOMAIN out.calc \ {"rate"} :
                          other.out.calc[f] = out.calc[f]
        /\ out.shown.LoanPrincipal = Round1(RMul(out.calc.loan_principal_usd, out.calc.rate))
        /\ out.shown.FOBSubtotal = Round1(RMul(out.calc.fob_subtotal_usd, out.calc.rate))

C4_Witness ==
    /\ Completed
    /\ out.selected_currency = "ZAR"
    /\ out.calc.rate = I(18)
    /\ out.shown.FOBSubtotal # out.calc.fob_subtotal_usd

\* C5: panels_required is the smallest number of panels whose daily energy
\* (0.5 kW each over the sun hours) covers energy_production.
C5_PanelsSmallestCover ==
    Completed =>
        LET n == out.calc.panels_required
            ep == out.calc.energy_production
            Cover(k) == RMul(RMul(I(k), panel_wattage_kw), sun_hours)
        IN  /\ RLe(ep, Cover(n))
            /\ RLt(Cover(n - 1), ep)

C5_Witness ==
    /\ Completed
    /\ out.calc.panels_required >= 2
    /\ RLt(out.calc.energy_production,
           RMul(RMul(I(out.calc.panels_required), panel_wattage_kw), sun_hours))

\* C6: the recommended size is a multiple of 0.5 kWp that covers
\* energy_production over the sun hours, and the next smaller multiple does not.
C6_SizeSmallestHalfStep ==
    Completed =>
        LET size == out.calc.recommended_solar_size
            ep == out.calc.energy_production
        IN  /\ RMul(size, I(2)).d = 1
            /\ RLe(ep, RMul(size, sun_hours))
            /\ RLt(RMul(RSub(size, Q(1, 2)), sun_hours), ep)

C6_Witness ==
    /\ Completed
    /\ out.calc.recommended_solar_size.d = 2
    /\ RLt(out.calc.energy_production, RMul(out.calc.recommended_solar_size, sun_hours))

\* C7: if a run is Viable, the run with the same widget values and any
\* higher income per kg is Viable too.
C7_ViabilityMonotonic ==
    (Completed /\ out.calc.viability_text = "Yes") =>
        \A higher \in IncomeInputs :
            RLt(income_per_kg, higher) =>
                LET other == Results([In EXCEPT !.income_per_kg = higher],
                                     out.rates, out.selected_currency)
                IN  /\ other.page = "results"
                    /\ other.out.calc.viability_text = "Yes"

C7_Witness ==
    /\ Completed
    /\ out.calc.viability_text = "Yes"
    /\ \E higher \in IncomeInputs : RLt(income_per_kg, higher)

\* C8: no run divides by zero.
C8_NeverDividesByZero == page # "calc_exception"

\* C9: an AC system is charged an inverter at 100 per kWp and no controller,
\* a DC system a controller at 50 per kWp and no inverter; the FOB subtotal
\* is the sum of the five component costs and the installed total is the
\* subtotal marked up by the install percentage, never below the subtotal.
C9_SystemCostExclusive ==
    Completed =>
        LET c == out.calc
            size == c.recommended_solar_size
        IN  /\ selected_system = "AC" =>
                 c.inverter_cost = RMul(size, I(100)) /\ c.controller_cost = I(0)
            /\ selected_system = "DC" =>
                 c.controller_cost = RMul(size, I(50)) /\ c.inverter_cost = I(0)
            /\ c.inverter_cost = I(0) \/ c.controller_cost = I(0)
            /\ c.fob_subtotal_usd =
                 RAdd(c.price_usd, RAdd(c.solar_panel_cost,
                    RAdd(c.inverter_cost, RAdd(c.controller_cost, c.battery_cost))))
            /\ c.total_with_import_usd =
                 RAdd(c.fob_subtotal_usd,
                      RDiv(RMul(c.fob_subtotal_usd, I(install_increase)), I(100)))
            /\ RLe(c.fob_subtotal_usd, c.total_with_import_usd)

C9_Witness ==
    /\ Completed
    /\ selected_system = "DC"
    /\ out.calc.controller_cost.n > 0
    /\ RLt(out.calc.fob_subtotal_usd, out.calc.total_with_import_usd)

C11_SelectionPrecondition ==
    [][ /\ (page' = "results" /\ <<page, out>>' # <<page, out>>) => Calculate
        /\ page' = "results" =>
              /\ selected_appliance' \in DOMAIN power_map
              /\ selected_appliance' \in DOMAIN price_map_usd
              /\ selected_appliance' \in DOMAIN processing_speed_map
              /\ selected_system' \in {"AC", "DC"}
        /\ ( /\ selected_appliance = ChooseOne \/ selected_system = ChooseOne
             /\ page' # "fetch_exception"
             /\ Calculate ) =>
              page' = "missing_selection" /\ out' = NoOut
        /\ page' = "missing_selection" =>
              /\ selected_appliance' = ChooseOne \/ selected_system' = ChooseOne
              /\ out' = NoOut
      ]_vars

C11_Witness ==
    /\ page = "missing_selection"
    /\ selected_appliance # ChooseOne
    /\ selected_system = ChooseOne
    /\ out = NoOut

\* C12: in every completed run with monthly_rate > 0 the total repayment is
\* the monthly payment times the months, the total interest is the total
\* repayment less the principal, the annual repayment is twelve monthly
\* payments, and a positive principal pays a positive total interest.
C12_AmortizationIdentity ==
    (Completed /\ RPos(out.calc.monthly_rate.v)) =>
        LET c == out.calc
        IN  /\ c.total_repayment_usd = RMul(c.monthly_repayment_usd, I(c.months))
            /\ c.total_interest_paid_usd = RSub(c.total_repayment_usd, c.loan_principal_usd)
            /\ c.annual_repayment_usd = RMul(I(12), c.monthly_repayment_usd)
            /\ RPos(c.loan_principal_usd) => RPos(c.total_interest_paid_usd)

\* C13: a run with an interest rate of 0 never ends in an exception; when it
\* completes it has taken the simple branch, the monthly payment is the
\* principal divided by the months, the months are at least 12, and the
\* total interest is 0.
C13_ZeroInterestBoundary ==
    RIsZero(interest_pct.v) =>
        /\ page # "calc_exception"
        /\ Completed =>
            /\ RIsZero(out.calc.monthly_rate.v)
            /\ out.calc.months >= 12
            /\ out.calc.loan_divisor = Bin(I(out.calc.months), 0)
            /\ out.calc.monthly_repayment_usd =
                   RDiv(out.calc.loan_principal_usd, I(out.calc.months))
            /\ RIsZero(out.calc.total_interest_paid_usd)

C13_Witness ==
    /\ Completed
    /\ RIsZero(interest_pct.v)
    /\ out.calc.months = 24
    /\ RPos(out.calc.monthly_repayment_usd)
    /\ RIsZero(out.calc.total_interest_paid_usd)
====
